---- MODULE Spec2Model ----
(***************************************************************************)
(* A model of voronoi.py: the nearest-site assignment grid, the colour     *)
(* mappings and the image compositor.                                      *)
(*                                                                         *)
(* Numbers.  A Python float of the program is written <<n, d>> and stands  *)
(* for the IEEE-754 double nearest to the fraction n/d (what the literal   *)
(* or the division n / d evaluates to).  A site coordinate is <<k, Denom>>,*)
(* a normalized pixel coordinate is <<col, RES>>.  A Point is a pair of    *)
(* such floats, a Pixel a pair of integers, a Col a triple of integers.    *)
(* List indices are Python's (from 0); the lists themselves are TLA+       *)
(* sequences, so element i of the list is points[i + 1].                   *)
(***************************************************************************)
EXTENDS Integers, Sequences, FiniteSets, TLC

\* ------------------------------------------------------------------ bounds

\* Largest resolution RES a run of main is started with.
MaxRes == 4
\* Largest number of sites (POINT_COUNT) a run of main is started with.
MaxPoints == 2
\* Largest marker radius DOT_SIZE a run of main is started with.
MaxDot == 2
\* Largest resolution the pure geometry functions are applied at.
MaxGeomRes == 22

\* Site coordinates are the multiples k/Denom of the unit interval.
Denom == 20

\* ------------------------------------------------------- float arithmetic

RECURSIVE Pow2(_)
Pow2(e) == IF e = 0 THEN 1 ELSE 2 * Pow2(e - 1)

\* 2^e modulo m, without forming 2^e.
RECURSIVE Pow2Mod(_, _)
Pow2Mod(e, m) == IF e = 0 THEN 1 % m ELSE (2 * Pow2Mod(e - 1, m)) % m

\* The number of binary digits of N >= 1.
RECURSIVE BitLen(_)
BitLen(N) == IF N = 0 THEN 0 ELSE 1 + BitLen(N \div 2)

\* The least j >= 0 with n * 2^j >= d (0 < n <= d): the double n/d has the
\* 53-bit significand round(n * 2^(52+j) / d).
RECURSIVE BinadeShift(_, _)
BinadeShift(n, d) == IF n >= d THEN 0 ELSE 1 + BinadeShift(2 * n, d)

\* int(x * k) for the double x = <<n, d>>, 0 <= n <= d, and an integer k >= 0,
\* as IEEE-754 binary64 computes it (round to nearest, ties to even), then
\* truncated by int().  The double x is n/d - r/(d*2^e) when the division
\* rounded down (r the remainder of n*2^e by d), so x*k falls short of the
\* integer n*k/d by r*k/(d*2^e); the product rounds back up to that integer
\* only if the shortfall is at most half the spacing of the doubles below it.
FloatMulTrunc(x, k) ==
    LET n == x[1]
        d == x[2]
        N == (n * k) \div d
        j == BinadeShift(n, d)
        e == 52 + j
        r == ((n % d) * Pow2Mod(e, d)) % d
        r2 == ((n % (2 * d)) * Pow2Mod(e, 2 * d)) % (2 * d)
        roundedDown == 2 * r < d \/ (2 * r = d /\ r2 < d)
        kb == BitLen(N)
        half == IF Pow2(kb - 1) = N THEN 8 ELSE 4
    IN  IF n = 0 \/ k = 0 THEN 0
        ELSE IF (n * k) % d # 0 THEN N
        ELSE IF r = 0 \/ ~roundedDown THEN N
        ELSE IF r * k * half <= d * Pow2(j + kb) THEN N
        ELSE N - 1

\* ---------------------------------------------------------------- geometry

VARIABLES RES, DOT_SIZE, METRIC_SPACE, points, grid, row, pc, mi, ci, cols,
          image, px, di, cpiCalls, mapCalls, shown, err, arg, out

vars == <<RES, DOT_SIZE, METRIC_SPACE, points, grid, row, pc, mi, ci, cols,
          image, px, di, cpiCalls, mapCalls, shown, err, arg, out>>

\* A bug normalize could have: the centre of the pixel, (pixel + 0.5) / RES.
normalize_centre(pixel) ==
    <<<<2 * pixel[1] + 1, 2 * RES>>, <<2 * pixel[2] + 1, 2 * RES>>>>

\* normalize: (pixel[0] / RES, pixel[1] / RES)
normalize(pixel) == <<<<pixel[1], RES>>, <<pixel[2], RES>>>>

\* denormalize: (int(point[0] * RES), int(point[1] * RES))
denormalize(point) == <<FloatMulTrunc(point[1], RES), FloatMulTrunc(point[2], RES)>>

\* ----------------------------------------------------------------- metrics

Abs(v) == IF v < 0 THEN 0 - v ELSE v

\* The difference a - b of two floats, as the fraction <<numerator, denominator>>.
Diff(a, b) == <<a[1] * b[2] - b[1] * a[2], a[2] * b[2]>>

\* dist_sqr: (p1[0] - p2[0]) ** 2 + (p1[1] - p2[1]) ** 2, as an exact fraction.
dist_sqr(p1, p2) ==
    LET dx == Diff(p1[1], p2[1])
        dy == Diff(p1[2], p2[2])
    IN  <<(dx[1] * dy[2]) * (dx[1] * dy[2]) + (dy[1] * dx[2]) * (dy[1] * dx[2]),
          (dx[2] * dy[2]) * (dx[2] * dy[2])>>

\* man_dist: abs(p1[0] - p2[0]) + abs(p1[1] - p2[1]), as an exact fraction.
man_dist(p1, p2) ==
    LET dx == Diff(p1[1], p2[1])
        dy == Diff(p1[2], p2[2])
    IN  <<Abs(dx[1]) * dy[2] + Abs(dy[1]) * dx[2], dx[2] * dy[2]>>

\* [dist_sqr, man_dist][METRIC_SPACE]
Metric(m, p1, p2) == IF m = 0 THEN dist_sqr(p1, p2) ELSE man_dist(p1, p2)

\* u < v for two fractions with positive denominators.
FracLess(u, v) == IF u[2] = v[2] THEN u[1] < v[1] ELSE u[1] * v[2] < v[1] * u[2]

Site(kx, ky) == <<<<kx, Denom>>, <<ky, Denom>>>>

\* The sites a run of main may draw.
Sites == {Site(2, 2), Site(18, 18), Site(10, 5)}

\* The program computes the metric in doubles.  Rounding changes the order of
\* two metric values only where the exact values are equal; those cases are
\* listed here, for the sites of Sites and every resolution up to 6, from the
\* program's own arithmetic: <<m, R, pixel, a, b>> says that under metric m
\* the double computed for (normalize(pixel), a) at RES = R is strictly below
\* the one computed for (normalize(pixel), b), the exact values being equal.
RoundedTies ==
    { <<0, 5, <<1, 4>>, Site(18, 18), Site(2, 2)>>,
      <<0, 5, <<4, 1>>, Site(18, 18), Site(2, 2)>>,
      <<1, 3, <<1, 2>>, Site(2, 2), Site(18, 18)>>,
      <<1, 3, <<2, 1>>, Site(2, 2), Site(18, 18)>>,
      <<1, 5, <<1, 4>>, Site(18, 18), Site(2, 2)>>,
      <<1, 5, <<4, 1>>, Site(18, 18), Site(2, 2)>>,
      <<1, 6, <<2, 4>>, Site(2, 2), Site(18, 18)>>,
      <<1, 6, <<4, 2>>, Site(2, 2), Site(18, 18)>> }

\* key(a) < key(b) for key = partial(metric, p): the comparison min() makes.
KeyLess(m, p, a, b) ==
    \/ FracLess(Metric(m, p, a), Metric(m, p, b))
    \/ <<m, p[1][2], <<p[1][1], p[2][1]>>, a, b>> \in RoundedTies

\* min(points, key=...): the first element no later element's key is below.
RECURSIVE MinFrom(_, _, _, _, _)
MinFrom(m, pts, p, i, best) ==
    IF i > Len(pts) THEN best
    ELSE MinFrom(m, pts, p, i + 1,
                 IF KeyLess(m, p, pts[i], best) THEN pts[i] ELSE best)

MinPoint(m, pts, p) == MinFrom(m, pts, p, 2, pts[1])

\* list.index(v): the Python index of the first element equal to v.
Index(pts, v) == (CHOOSE i \in 1..Len(pts) :
                     pts[i] = v /\ \A k \in 1..(i - 1) : pts[k] # v) - 1

\* A bug cpi could have: max in place of min.
RECURSIVE MaxFrom(_, _, _, _, _)
MaxFrom(m, pts, p, i, best) ==
    IF i > Len(pts) THEN best
    ELSE MaxFrom(m, pts, p, i + 1,
                 IF KeyLess(m, p, best, pts[i]) THEN pts[i] ELSE best)

cpi_max(pts, p) == Index(pts, MaxFrom(METRIC_SPACE, pts, p, 2, pts[1]))

\* A bug cpi could have: a later element replaces the best one on an equal key.
RECURSIVE MinLastFrom(_, _, _, _, _)
MinLastFrom(m, pts, p, i, best) ==
    IF i > Len(pts) THEN best
    ELSE MinLastFrom(m, pts, p, i + 1,
                     IF KeyLess(m, p, best[1], pts[i]) THEN best ELSE <<pts[i], i - 1>>)

cpi_last(pts, p) == MinLastFrom(METRIC_SPACE, pts, p, 2, <<pts[1], 0>>)[2]

\* cpi: points.index(min(points, key=partial([dist_sqr, man_dist][METRIC_SPACE], p)))
cpi(pts, p) == Index(pts, MinPoint(METRIC_SPACE, pts, p))

\* ---------------------------------------------------------------- mappings

\* A bug scale could have: rounding to the nearest integer, not truncating.
scale_round(c) == [i \in 1..3 |-> (2 * c[i][1] * 255 + c[i][2]) \div (2 * c[i][2])]

\* scale: (int(c[0] * 255), int(c[1] * 255), int(c[2] * 255))
scale(c) == <<FloatMulTrunc(c[1], 255), FloatMulTrunc(c[2], 255),
              FloatMulTrunc(c[3], 255)>>

\* xy_to_rg: scale((p[0], p[1], 0))
xy_to_rg(p) == scale(<<p[1], p[2], <<0, 1>>>>)

\* colorsys.hsv_to_rgb(h, 1, v) for h = <<hn, hd>> in [0, 1): the sector
\* i = int(h * 6), f = h * 6 - i, p = v * (1 - 1), q = v * (1 - f),
\* t = v * (1 - (1 - f)); each channel as the fraction it is the double of.
hsv_to_rgb(h, v) ==
    LET i == ((6 * h[1]) \div h[2]) % 6
        fn == (6 * h[1]) % h[2]
        p == <<0, 1>>
        q == <<v[1] * (h[2] - fn), v[2] * h[2]>>
        t == <<v[1] * fn, v[2] * h[2]>>
    IN  CASE i = 0 -> <<v, t, p>>
          [] i = 1 -> <<q, v, p>>
          [] i = 2 -> <<p, v, t>>
          [] i = 3 -> <<p, q, v>>
          [] i = 4 -> <<t, p, v>>
          [] OTHER -> <<v, p, q>>

\* xy_to_hsv: scale(hsv_to_rgb(p[0], 1, p[1]))
xy_to_hsv(p) == scale(hsv_to_rgb(p[1], p[2]))

\* polar_to_hsv: the radius ((x - 0.5)**2 + (y - 0.5)**2) ** 0.5 and the angle
\* atan2(y - 0.5, x - 0.5) are not fractions; the function is given by the
\* colours the program computes for the sites of Sites.
polar_to_hsv(p) ==
    CASE p = Site(2, 2) -> <<0, 36, 144>>
      [] p = Site(18, 18) -> <<144, 108, 0>>
      [] p = Site(10, 5) -> <<31, 0, 63>>

\* The colours random_col is seen to draw: (randrange(256),) * 3 is one of
\* 2^24 colours, of which the model keeps two.
RandCols == {<<0, 0, 0>>, <<200, 100, 50>>}

\* mappings = [random_col, xy_to_rg, xy_to_hsv, polar_to_hsv]
mappings_swapped == <<"xy_to_rg", "random_col", "xy_to_hsv", "polar_to_hsv">>

mappings == <<"random_col", "xy_to_rg", "xy_to_hsv", "polar_to_hsv">>

\* The colours mapping(p) may return.
MapResults(name, p) ==
    CASE name = "random_col" -> RandCols
      [] name = "xy_to_rg" -> {xy_to_rg(p)}
      [] name = "xy_to_hsv" -> {xy_to_hsv(p)}
      [] name = "polar_to_hsv" -> {polar_to_hsv(p)}


\* ------------------------------------------------------------------- image

\* Image.new(mode="RGB", size=(RES, RES)): every pixel (0, 0, 0).
NewImage == [q \in (0..(RES - 1)) \X (0..(RES - 1)) |-> <<0, 0, 0>>]

InDisk(q, c, r) ==
    (q[1] - c[1]) * (q[1] - c[1]) + (q[2] - c[2]) * (q[2] - c[2]) <= r * r

\* A bug the marker could have: the outline of the circle only, no fill.
draw_circle_outline(img, c, r) ==
    [q \in DOMAIN img |->
        IF InDisk(q, c, r) /\ ~InDisk(q, c, r - 1) THEN <<0, 0, 0>> ELSE img[q]]

\* draw.circle(xy, radius, fill=(0, 0, 0)): the pixels of the image within
\* radius of xy become black; the part of the disk outside the image is
\* clipped by the library.
draw_circle(img, c, r) ==
    [q \in DOMAIN img |-> IF InDisk(q, c, r) THEN <<0, 0, 0>> ELSE img[q]]

\* A bug the pixel loop could have: the grid read as grid[x][y].
PixelColour_transposed(c, g, x, y) == c[g[x + 1][y + 1]]

\* cols[grid[y][x]]
PixelColour(c, g, x, y) == c[g[y + 1][x + 1]]

\* The k-th pair of product(range(RES), repeat=2), k from 0: x is the slow axis.
ProductAt(k) == <<k \div RES, k % RES>>

\* cols[key] = val in a dict.
DictSet(d, key, val) ==
    IF key \in DOMAIN d THEN [d EXCEPT ![key] = val] ELSE d @@ (key :> val)

\* -------------------------------------------------------------------- main

SeqsUpTo(S, n) == UNION {[1..k -> S] : k \in 0..n}

Init ==
    /\ RES \in 1..MaxRes
    /\ DOT_SIZE \in 0..MaxDot
    /\ METRIC_SPACE \in {0, 1}
    /\ points \in SeqsUpTo(Sites, MaxPoints)
    /\ grid = <<>>
    /\ row = <<>>
    /\ pc = "grid"
    /\ mi = 1
    /\ ci = 0
    /\ cols = <<>>
    /\ image = <<>>
    /\ px = 0
    /\ di = 0
    /\ cpiCalls = 0
    /\ mapCalls = <<>>
    /\ shown = <<>>
    /\ err = "none"
    /\ arg = <<>>
    /\ out = <<>>

\* One cell of grid = [[cpi(points, normalize((x, y))) for x in range(RES)]
\* for y in range(RES)].  min() of an empty list raises ValueError.
GridCell ==
    /\ pc = "grid"
    /\ cpiCalls' = cpiCalls + 1
    /\ IF Len(points) = 0
       THEN /\ pc' = "crashed"
            /\ err' = "ValueError"
            /\ UNCHANGED <<grid, row>>
       ELSE LET x == Len(row)
                y == Len(grid)
                r == Append(row, cpi(points, normalize(<<x, y>>)))
            IN  /\ IF Len(r) = RES
                   THEN grid' = Append(grid, r) /\ row' = <<>>
                   ELSE grid' = grid /\ row' = r
                /\ pc' = IF Len(r) = RES /\ y + 1 = RES THEN "cols" ELSE "grid"
                /\ err' = err
    /\ UNCHANGED <<RES, DOT_SIZE, METRIC_SPACE, points, mi, ci, cols, image, px,
                   di, mapCalls, shown, arg, out>>

\* One entry of cols = {points.index(p): mapping(p) for p in points}; after
\* the last one, image = Image.new(...).
ColsEntry ==
    /\ pc = "cols"
    /\ LET p == points[ci + 1]
           key == Index(points, p)
       IN  \E c \in MapResults(mappings[mi], p) :
              /\ cols' = DictSet(cols, key, c)
              /\ mapCalls' = Append(mapCalls, key)
    /\ ci' = ci + 1
    /\ IF ci + 1 = Len(points)
       THEN pc' = "pixels" /\ image' = NewImage /\ px' = 0
       ELSE pc' = "cols" /\ image' = image /\ px' = px
    /\ UNCHANGED <<RES, DOT_SIZE, METRIC_SPACE, points, grid, row, mi, di,
                   cpiCalls, shown, err, arg, out>>

\* One step of the loop image.putpixel((x, y), cols[grid[y][x]]); a key that
\* cols does not hold raises KeyError.  After the last pixel, if DOT_SIZE.
PutPixel ==
    /\ pc = "pixels"
    /\ LET q == ProductAt(px)
       IN  IF grid[q[2] + 1][q[1] + 1] \in DOMAIN cols
           THEN /\ image' = [image EXCEPT ![q] = PixelColour(cols, grid, q[1], q[2])]
                /\ px' = px + 1
                /\ pc' = IF px + 1 < RES * RES THEN "pixels"
                         ELSE IF DOT_SIZE # 0 THEN "dots" ELSE "show"
                /\ err' = err
           ELSE /\ pc' = "crashed"
                /\ err' = "KeyError"
                /\ UNCHANGED <<image, px>>
    /\ di' = 0
    /\ UNCHANGED <<RES, DOT_SIZE, METRIC_SPACE, points, grid, row, mi, ci, cols,
                   cpiCalls, mapCalls, shown, arg, out>>

\* One step of the loop draw.circle(denormalize(point), DOT_SIZE, fill=(0, 0, 0)).
DrawDot ==
    /\ pc = "dots"
    /\ image' = draw_circle(image, denormalize(points[di + 1]), DOT_SIZE)
    /\ di' = di + 1
    /\ pc' = IF di + 1 = Len(points) THEN "show" ELSE "dots"
    /\ UNCHANGED <<RES, DOT_SIZE, METRIC_SPACE, points, grid, row, mi, ci, cols,
                   px, cpiCalls, mapCalls, shown, err, arg, out>>

\* gen_image returns and main shows the image; the call's locals are gone and
\* the loop over mappings goes on.
Show ==
    /\ pc = "show"
    /\ shown' = Append(shown, mappings[mi])
    /\ cols' = <<>>
    /\ image' = <<>>
    /\ mapCalls' = <<>>
    /\ ci' = 0
    /\ px' = 0
    /\ di' = 0
    /\ IF mi < Len(mappings)
       THEN mi' = mi + 1 /\ pc' = "cols"
       ELSE mi' = mi /\ pc' = "done"
    /\ UNCHANGED <<RES, DOT_SIZE, METRIC_SPACE, points, grid, row, cpiCalls, err,
                   arg, out>>

Next == GridCell \/ ColsEntry \/ PutPixel \/ DrawDot \/ Show

Spec == Init /\ [][Next]_vars


\* ------------------------------------------- the pure functions, one call

\* The channel values and coordinates the functions are called with.
Chan == {<<k, Denom>> : k \in 0..Denom}

InitGeom ==
    /\ RES \in 1..MaxGeomRes
    /\ \/ arg \in {<<"pixel", q>> : q \in (0..(RES - 1)) \X (0..(RES - 1))}
       \/ RES = 1 /\ arg \in {<<"floats", c>> : c \in Chan \X Chan \X Chan}
       \/ RES = 1 /\ arg \in {<<"point", q>> : q \in Chan \X Chan}
    /\ out = <<>>
    /\ pc = "call"
    /\ DOT_SIZE = 0
    /\ METRIC_SPACE = 0
    /\ points = <<>>
    /\ grid = <<>>
    /\ row = <<>>
    /\ mi = 1
    /\ ci = 0
    /\ cols = <<>>
    /\ image = <<>>
    /\ px = 0
    /\ di = 0
    /\ cpiCalls = 0
    /\ mapCalls = <<>>
    /\ shown = <<>>
    /\ err = "none"

GeomFrame == UNCHANGED <<RES, DOT_SIZE, METRIC_SPACE, points, grid, row, mi, ci,
                         cols, image, px, di, cpiCalls, mapCalls, shown, err, arg>>

\* denormalize(normalize(pixel))
CallRoundTrip ==
    /\ pc = "call"
    /\ arg[1] = "pixel"
    /\ out' = denormalize(normalize(arg[2]))
    /\ pc' = "returned"
    /\ GeomFrame

\* scale(c)
CallScale ==
    /\ pc = "call"
    /\ arg[1] = "floats"
    /\ out' = scale(arg[2])
    /\ pc' = "returned"
    /\ GeomFrame

\* xy_to_rg(p)
CallXyToRg ==
    /\ pc = "call"
    /\ arg[1] = "point"
    /\ out' = xy_to_rg(arg[2])
    /\ pc' = "returned"
    /\ GeomFrame

NextGeom == CallRoundTrip \/ CallScale \/ CallXyToRg

SpecGeom == InitGeom /\ [][NextGeom]_vars


\* ------------------------------------------------------------------ claims

\* The pixels whose grid cell has been computed so far, and the index stored.
BuiltCells ==
    {<<x, y>> : x \in 0..(RES - 1), y \in 0..(Len(grid) - 1)}
        \cup {<<x, Len(grid)>> : x \in 0..(Len(row) - 1)}

CellAt(q) == IF q[2] < Len(grid) THEN grid[q[2] + 1][q[1] + 1] ELSE row[q[1] + 1]

InGenImage == pc \in {"cols", "pixels", "dots", "show"}

GridDone == pc \in {"cols", "pixels", "dots", "show", "done"}

\* The Python indices of the sites no site is nearer to normalize(q) than.
Minimizers(q) ==
    {j \in 0..(Len(points) - 1) :
        \A k \in 1..Len(points) :
            ~KeyLess(METRIC_SPACE, normalize(q), points[k], points[j + 1])}

\* The float x is the fraction n/d.
FloatIs(x, n, d) == x[1] * d = n * x[2]

Black == <<0, 0, 0>>

\* The grid is being built, or has just been built and not yet been used.
GridFresh == pc = "grid" \/ (pc = "cols" /\ mi = 1 /\ ci = 0)

\* Once the grid is built, no step changes what its cells were computed from.
GridFrozen ==
    GridDone => /\ grid' = grid
                /\ points' = points
                /\ RES' = RES
                /\ METRIC_SPACE' = METRIC_SPACE

\* C1: every computed grid cell holds an index i in [0, N) of a site whose
\* metric to the pixel's normalized coordinate is not above that of any other
\* site, under either metric: metric(p, points[i]) <= metric(p, points[j]);
\* and the built grid stays as it is for the rest of the run.
C1_GridMinimizesMetric ==
    /\ [](GridFresh =>
            \A q \in BuiltCells :
                /\ CellAt(q) \in 0..(Len(points) - 1)
                /\ \A j \in 1..Len(points) :
                      ~KeyLess(METRIC_SPACE, normalize(q), points[j],
                               points[CellAt(q) + 1]))
    /\ [][GridFrozen]_vars

\* A grid built under the Manhattan metric from two sites, each owning a pixel.
C1_Witness ==
    /\ pc = "cols"
    /\ GridFresh
    /\ METRIC_SPACE = 1
    /\ Len(points) = 2
    /\ \E q1 \in BuiltCells, q2 \in BuiltCells : CellAt(q1) = 0 /\ CellAt(q2) = 1

\* C2: where several sites are equidistant minimizers for a pixel (sites with
\* equal coordinates included), the cell holds the smallest list index among
\* the minimizers, so the cell is a function of the list and the pixel; the
\* built grid stays as it is for the rest of the run.
C2_TieBreakFirstIndex ==
    /\ [](GridFresh =>
            \A q \in BuiltCells :
                LET m == Minimizers(q)
                IN  CellAt(q) \in m /\ \A j \in m : CellAt(q) <= j)
    /\ [][GridFrozen]_vars

\* A finished grid with a pixel two sites of different coordinates tie for.
C2_Witness ==
    /\ pc = "cols"
    /\ GridFresh
    /\ \E q \in BuiltCells : \E j \in Minimizers(q) :
          j > CellAt(q) /\ points[j + 1] # points[CellAt(q) + 1]

\* C3: an empty site list is rejected with InvalidInput before any computation:
\* no cpi call, no mapping call, no pixel, and never an error of another kind.
C3_EmptyRejectedFirst ==
    Len(points) = 0 =>
        /\ cpiCalls = 0
        /\ mapCalls = <<>>
        /\ image = <<>>
        /\ err \in {"none", "InvalidInput"}
        /\ (pc # "grid" => err = "InvalidInput")

\* C4: once the colour table of a gen_image call is built, the mapping has
\* been called exactly once for each site identity (each key of the table).
C4_MappingOncePerSite ==
    pc \in {"pixels", "dots", "show"} =>
        \A key \in DOMAIN cols :
            Cardinality({k \in 1..Len(mapCalls) : mapCalls[k] = key}) = 1

\* C5: in the image gen_image returns, with DOT_SIZE > 0 every pixel of the
\* image within DOT_SIZE of denormalize(site) is black, for every site and
\* whatever colour its region has (markers are drawn after the last base
\* pixel); a disk reaching outside the image raises nothing; with DOT_SIZE = 0 every pixel keeps its region's colour.
C5_MarkersBlackAndClipped ==
    /\ pc = "show" /\ DOT_SIZE > 0 =>
          \A k \in 1..Len(points) : \A q \in DOMAIN image :
              InDisk(q, denormalize(points[k]), DOT_SIZE) => image[q] = Black
    /\ pc = "show" /\ DOT_SIZE = 0 =>
          \A q \in DOMAIN image : image[q] = cols[grid[q[2] + 1][q[1] + 1]]
    /\ pc = "dots" => px = RES * RES /\ err = "none"
    /\ pc = "pixels" => di = 0
    /\ Len(points) > 0 => pc # "crashed"

\* A returned image with a marker that reaches outside the image and that
\* blackened a pixel whose region has another colour.
C5_Witness ==
    /\ pc = "show"
    /\ DOT_SIZE > 0
    /\ \E k \in 1..Len(points) :
          LET c == denormalize(points[k])
          IN  /\ \E q \in (-1..RES) \X (-1..RES) :
                    InDisk(q, c, DOT_SIZE) /\ q \notin DOMAIN image
              /\ \E q \in DOMAIN image :
                    /\ InDisk(q, c, DOT_SIZE)
                    /\ cols[grid[q[2] + 1][q[1] + 1]] # Black
                    /\ image[q] = Black

\* C6: denormalize(normalize(pixel)) = pixel for every RES >= 1 and every
\* pixel of the RES x RES lattice.
C6_RoundTrip ==
    pc = "returned" /\ arg[1] = "pixel" => out = arg[2]

C7_Sites == <<Site(2, 2), Site(18, 18)>>

C7_Case == RES = 4 /\ METRIC_SPACE = 0 /\ points = C7_Sites /\ GridDone

\* C7 as stated: at RES = 4 with sites (0.1, 0.1), (0.9, 0.9) and the squared
\* Euclidean metric, pixel (0,0) normalizes to (0.125, 0.125) and belongs to
\* the first site, pixel (3,3) normalizes to (0.875, 0.875) and belongs to the
\* second, and pixel (3 - col, 3 - row) always belongs to the other site than
\* pixel (col, row).
C7_AsStated ==
    C7_Case =>
        /\ FloatIs(normalize(<<0, 0>>)[1], 1, 8) /\ FloatIs(normalize(<<0, 0>>)[2], 1, 8)
        /\ grid[1][1] = 0
        /\ FloatIs(normalize(<<3, 3>>)[1], 7, 8) /\ FloatIs(normalize(<<3, 3>>)[2], 7, 8)
        /\ grid[4][4] = 1
        /\ \A col \in 0..3, rw \in 0..3 :
              grid[(3 - rw) + 1][(3 - col) + 1] = 1 - grid[rw + 1][col + 1]

\* C7 amended: pixel (0,0) normalizes to (0, 0) and belongs to the first site,
\* pixel (3,3) normalizes to (0.75, 0.75) and belongs to the second, and pixel
\* (col, row) belongs to the second site exactly when col + row > 4: the grid
\* is not symmetric under the point reflection ((1,2) and (2,1) both belong
\* to the first site).
C7_Amended ==
    C7_Case =>
        /\ FloatIs(normalize(<<0, 0>>)[1], 0, 1) /\ FloatIs(normalize(<<0, 0>>)[2], 0, 1)
        /\ grid[1][1] = 0
        /\ FloatIs(normalize(<<3, 3>>)[1], 3, 4) /\ FloatIs(normalize(<<3, 3>>)[2], 3, 4)
        /\ grid[4][4] = 1
        /\ \A col \in 0..3, rw \in 0..3 :
              grid[rw + 1][col + 1] = IF col + rw > 4 THEN 1 ELSE 0
        /\ grid[2 + 1][1 + 1] = grid[1 + 1][2 + 1]

\* The grid of the example, built.
C7_Witness == C7_Case /\ pc = "cols" /\ grid[4][4] = 1 /\ grid[3][2] = 0

\* C8: scale maps each channel c in [0, 1] to floor(c * 255): the result is
\* in [0, 255], does not decrease when the channel grows, is (0, 0, 0) for
\* (0, 0, 0) and (255, 255, 255) for (1, 1, 1); xy_to_rg of the site
\* (0.5, 0.25) is (127, 63, 0).
C8_ScaleTruncates ==
    /\ pc = "returned" /\ arg[1] = "floats" =>
          \A i \in 1..3 :
              /\ out[i] = (arg[2][i][1] * 255) \div arg[2][i][2]
              /\ out[i] \in 0..255
              /\ \A c \in Chan :
                    c[1] <= arg[2][i][1] => scale(<<c, c, c>>)[i] <= out[i]
              /\ (arg[2][i][1] = 0 => out[i] = 0)
              /\ (arg[2][i][1] = arg[2][i][2] => out[i] = 255)
    /\ pc = "returned" /\ arg = <<"point", Site(10, 5)>> => out = <<127, 63, 0>>

\* scale applied to (0.5, 0.25, 1): 127.5 and 63.75 are cut, not rounded.
C8_Witness ==
    /\ pc = "returned"
    /\ arg = <<"floats", <<<<10, Denom>>, <<5, Denom>>, <<Denom, Denom>>>>>>
    /\ out = <<127, 63, 255>>

C9_Order == <<"random_col", "xy_to_rg", "xy_to_hsv", "polar_to_hsv">>

C9_State ==
    /\ GridDone =>
          /\ cpiCalls = RES * RES
          /\ Len(grid) = RES
          /\ \A y \in 1..RES : Len(grid[y]) = RES
    /\ pc = "grid" => shown = <<>> /\ mapCalls = <<>> /\ cols = <<>> /\ mi = 1
    /\ Len(shown) <= 4
    /\ shown = SubSeq(C9_Order, 1, Len(shown))
    /\ InGenImage => mi = Len(shown) + 1 /\ mappings[mi] = C9_Order[mi]
    /\ pc = "done" => Len(shown) = 4
    /\ Len(points) > 0 => pc # "crashed"

\* C9: in a run of main on a non-empty site list cpi is evaluated RES * RES
\* times, all before the first gen_image call; the four images are made in
\* the order random_col, xy_to_rg, xy_to_hsv, polar_to_hsv; once the grid is
\* built no step of gen_image or main changes the grid, the site list or the
\* number of cpi evaluations.
C9_GridBuiltOnceAndReused ==
    /\ []C9_State
    /\ [][GridDone => grid' = grid /\ points' = points /\ cpiCalls' = cpiCalls]_vars

\* A finished run: four images shown from one 3 x 3 grid.
C9_Witness == pc = "done" /\ Len(shown) = 4 /\ RES = 3 /\ cpiCalls = 9

\* C10: every grid value is an index in [0, N) and a key of the colour table
\* of the current gen_image call, so cols[grid[row][col]] never raises; with
\* markers disabled the returned image holds at (col, row) the table colour
\* of grid[row][col].
C10_GridKeysInTable ==
    /\ \A q \in BuiltCells : CellAt(q) \in 0..(Len(points) - 1)
    /\ pc \in {"pixels", "dots", "show"} =>
          \A q \in BuiltCells : CellAt(q) \in DOMAIN cols
    /\ err # "KeyError"
    /\ pc = "pixels" =>
          \A k \in 0..(px - 1) :
              image[ProductAt(k)] = cols[grid[ProductAt(k)[2] + 1][ProductAt(k)[1] + 1]]
    /\ pc = "show" /\ DOT_SIZE = 0 =>
          \A col \in 0..(RES - 1), rw \in 0..(RES - 1) :
              image[<<col, rw>>] = cols[grid[rw + 1][col + 1]]

\* A returned image without markers, from a list whose two entries are equal.
C10_Witness ==
    /\ pc = "show"
    /\ DOT_SIZE = 0
    /\ Len(points) = 2
    /\ points[1] = points[2]
    /\ DOMAIN cols = {0}
    /\ \A q \in DOMAIN image : image[q] = cols[0]


====
